---- MODULE Spec2Model ----
(***************************************************************************)
(* Model of split_message (src/msg_split.py): the depth-first traversal    *)
(* of a parse tree that fills current_fragment, keeps open_blocks_stack    *)
(* and yields fragments.                                                   *)
(*                                                                         *)
(* Strings are sequences of one-character strings, so that len(), slicing  *)
(* and concatenation are those of the code.  The parse tree is delivered   *)
(* node by node in document order: each action is one call of traverse     *)
(* (for a block element, its part before and its part after the loop over  *)
(* the children), and the node visited is drawn from small sets.           *)
(***************************************************************************)
EXTENDS Integers, Sequences, FiniteSets, TLC

\* ----------------------------------------------------------------- bounds
MaxLen == 12
MaxNodes == 3
MaxDepth == 2
MaxText == 3
MaxWs == 2

\* ------------------------------------------------------- program constants
BLOCK_TAGS ==
    { <<"p">>, <<"b">>, <<"s","t","r","o","n","g">>, <<"i">>,
      <<"u","l">>, <<"o","l">>, <<"d","i","v">>, <<"s","p","a","n">> }

\* ------------------------------------------------------------ input alphabet
\* WS stands for any character str.strip() removes (space, newline, U+00A0, ...).
WS == {" ", "\n"}
TextChars == <<"x", "y", "z", "w", "v">>

NoAttrs == <<>>
\* An attribute list as tag.attrs.items() gives it: (key, value) pairs, the value
\* None, a list of strings or a string.
AttrNone(k) == [k |-> k, t |-> "none", l |-> <<>>]
AttrList(k, l) == [k |-> k, t |-> "list", l |-> l]
AttrStr(k, s) == [k |-> k, t |-> "str", l |-> <<s>>]

\* ------------------------------------------------------------ string helpers
RECURSIVE Concat(_)
Concat(ss) == IF ss = <<>> THEN <<>> ELSE Head(ss) \o Concat(Tail(ss))

RECURSIVE Join(_, _)
Join(ss, sep) ==
    IF ss = <<>> THEN <<>>
    ELSE IF Len(ss) = 1 THEN ss[1]
    ELSE ss[1] \o sep \o Join(Tail(ss), sep)

Reverse(s) == [i \in 1..Len(s) |-> s[Len(s) + 1 - i]]

\* text_str[idx : idx + n] of Python, idx counted from 0
Slice(s, idx, n) ==
    SubSeq(s, idx + 1, IF idx + n > Len(s) THEN Len(s) ELSE idx + n)

\* not text_str.strip()
IsBlank(s) == \A i \in 1..Len(s) : s[i] \in WS

RECURSIVE LStrip(_)
LStrip(s) == IF s # <<>> /\ Head(s) \in WS THEN LStrip(Tail(s)) ELSE s
Strip(s) == Reverse(LStrip(Reverse(LStrip(s))))

Spaces(n) == [i \in 1..n |-> " "]

\* ------------------------------------------------------------- parse tree
\* A node of the tree BeautifulSoup builds: a NavigableString (kind "text") or a
\* Tag (kind "tag"; void is is_empty_element, e.g. <br/>).
TextNode(s) ==
    [kind |-> "text", name |-> <<>>, attrs |-> <<>>, void |-> FALSE,
     children |-> <<>>, str |-> s]
TagNode(n, a, c) ==
    [kind |-> "tag", name |-> n, attrs |-> a, void |-> FALSE,
     children |-> c, str |-> <<>>]
VoidNode(n, a) ==
    [kind |-> "tag", name |-> n, attrs |-> a, void |-> TRUE,
     children |-> <<>>, str |-> <<>>]

\* ------------------------------------------------- serialising tags
\* format_attributes(tag)
FormatAttrPart(a) ==
    IF a.t = "none" THEN a.k
    ELSE IF a.t = "list" THEN a.k \o <<"=", "\"">> \o Join(a.l, <<" ">>) \o <<"\"">>
    ELSE a.k \o <<"=", "\"">> \o a.l[1] \o <<"\"">>

format_attributes(attrs) ==
    IF attrs = <<>> THEN <<>>
    ELSE <<" ">> \o Join([i \in 1..Len(attrs) |-> FormatAttrPart(attrs[i])], <<" ">>)

\* open_tag_str = f"<{tag_name}{format_attributes(node)}>"
OpenTagStr(name, attrs) == <<"<">> \o name \o format_attributes(attrs) \o <<">">>

\* closing_tag_str = f"</{tag_name}>"
ClosingTagStr(name) == <<"<", "/">> \o name \o <<">">>

\* open_block_tags(tags_stack): "".join(f"<{tag}>" for tag in tags_stack)
open_block_tags(tags_stack) ==
    Concat([i \in 1..Len(tags_stack) |-> <<"<">> \o tags_stack[i] \o <<">">>])

\* close_block_tags without reversed(): the closing tags outermost first.
close_block_tags_in_order(tags_stack) ==
    Concat([i \in 1..Len(tags_stack) |-> ClosingTagStr(tags_stack[i])])

\* close_block_tags(tags_stack): the closing tags, innermost first
close_block_tags(tags_stack) ==
    Concat([i \in 1..Len(tags_stack) |-> ClosingTagStr(Reverse(tags_stack)[i])])

\* node.prettify(formatter=None) of BeautifulSoup: every tag and every string on a
\* line of its own, indented by one space per nesting level; strings are stripped
\* and blank strings dropped; a void element has no closing tag.
RECURSIVE PrettyNode(_, _)
PrettyNode(node, level) ==
    IF node.kind = "text"
    THEN IF Strip(node.str) = <<>> THEN <<>>
         ELSE Spaces(level) \o Strip(node.str) \o <<"\n">>
    ELSE IF node.void
    THEN Spaces(level) \o <<"<">> \o node.name \o format_attributes(node.attrs)
         \o <<"/", ">", "\n">>
    ELSE Spaces(level) \o OpenTagStr(node.name, node.attrs) \o <<"\n">>
         \o Concat([i \in 1..Len(node.children) |->
                        PrettyNode(node.children[i], level + 1)])
         \o Spaces(level) \o ClosingTagStr(node.name) \o <<"\n">>

\* The newline after the outermost closing tag depends on the BeautifulSoup release
\* and on the node having a next sibling: final_nl is either outcome.
Prettify(node, final_nl) ==
    LET s == PrettyNode(node, 0)
    IN  IF final_nl \/ node.void THEN s ELSE SubSeq(s, 1, Len(s) - 1)

\* The text of a subtree in document order (the strings of its NavigableStrings).
RECURSIVE NodeText(_)
NodeText(node) ==
    IF node.kind = "text" THEN node.str
    ELSE Concat([i \in 1..Len(node.children) |-> NodeText(node.children[i])])

\* ------------------------------------------------------------- inputs
\* The block elements delivered: <p> and <b k> (a boolean attribute).
BlockNames == {<<"p">>, <<"b">>}
BlockAttrs(name) ==
    IF name = <<"b">> THEN {<<AttrNone(<<"k">>)>>} ELSE {NoAttrs}

Texts ==
    {SubSeq(TextChars, 1, n) : n \in 1..MaxText} \cup {Spaces(n) : n \in 1..MaxWs}

\* The atomic elements delivered: <br/>, <a>x</a> and <a k="v"><u> x</u></a>.
AtomicNodes ==
    { VoidNode(<<"b","r">>, NoAttrs),
      TagNode(<<"a">>, NoAttrs, <<TextNode(<<"x">>)>>),
      TagNode(<<"a">>, <<AttrStr(<<"k">>, <<"v">>)>>,
              <<TagNode(<<"u">>, NoAttrs, <<TextNode(<<" ", "x">>)>>)>>) }

\* ------------------------------------------------------------- state
VARIABLES
    max_len,            \* the max_len argument
    current_fragment,   \* the buffer
    open_blocks_stack,  \* names of the block tags open in the buffer
    out,                \* the fragments yielded so far, in order
    pc,                 \* "visit" | "loop" | "done" | "error"
    text_str,           \* the text of the node the text loop is splitting
    idx,                \* the text loop's index into text_str
    frames,             \* tag_name of every block element whose traverse call is active
    visited             \* the nodes visited so far, in document order

vars == <<max_len, current_fragment, open_blocks_stack, out, pc, text_str, idx,
          frames, visited>>

\* One entry of visited.  kind: "text" | "open" | "close" | "atomic"; str: what the
\* node contributes to the serialisation; txt: its text content; for an atomic
\* element, node is its subtree and frag, off are the fragment number and the
\* offset at which full_str was appended (frag 0: it was not appended); for a node
\* of kind "other" (a comment, doctype or processing instruction), node carries its
\* string and frag, off are the number of fragments yielded and the length of the
\* buffer when it was visited.
Event(kind, str, txt, node, frag, off) ==
    [kind |-> kind, str |-> str, txt |-> txt, node |-> node, frag |-> frag,
     off |-> off]
NoNode == TextNode(<<>>)

Init ==
    /\ max_len \in 1..MaxLen
    /\ current_fragment = <<>>
    /\ open_blocks_stack = <<>>
    /\ out = <<>>
    /\ pc = "visit"
    /\ text_str = <<>>
    /\ idx = 0
    /\ frames = <<>>
    /\ visited = <<>>

\* ------------------------------------------------------------- helpers of split_message
\* safe_append with the comparison off by one: a content that fills the buffer
\* exactly is refused.
SafeAppendFitsStrict(fragment, content) ==
    ~(Len(fragment) + Len(content) >= max_len)

\* safe_append that measures the content alone, not the buffer it is added to.
SafeAppendFitsAlone(fragment, content) == ~(Len(content) > max_len)

\* safe_append(content) succeeds
SafeAppendFits(fragment, content) == ~(Len(fragment) + Len(content) > max_len)

\* flush_fragment that cuts the buffer to leave room for the closing tags.
flush_fragment_cut(fragment, close_tags) ==
    LET closing == close_block_tags(open_blocks_stack)
        room == IF max_len > Len(closing) THEN max_len - Len(closing) ELSE 0
        keep == IF room < Len(fragment) THEN room ELSE Len(fragment)
    IN  IF close_tags THEN SubSeq(fragment, 1, keep) \o closing ELSE fragment

\* flush_fragment(fragment, close_tags)
flush_fragment(fragment, close_tags) ==
    IF close_tags THEN fragment \o close_block_tags(open_blocks_stack)
    ELSE fragment

\* The number of nodes delivered so far (an element counts once).
NodeCount == Cardinality({i \in 1..Len(visited) : visited[i].kind # "close"})

\* The parser merges adjacent character data: a text node never follows a text node.
AfterText == visited # <<>> /\ visited[Len(visited)].kind = "text"

CanVisit == pc = "visit" /\ NodeCount < MaxNodes

\* The same pattern with the fresh buffer left empty: the open block tags are not
\* written again after the flush.
AppendOrFlushFromEmpty(content) ==
    IF SafeAppendFits(current_fragment, content)
    THEN [frag |-> current_fragment \o content, out |-> out, ok |-> TRUE,
          flushed |-> FALSE]
    ELSE LET fresh == <<>>
             ok == SafeAppendFits(fresh, content)
         IN  [frag |-> IF ok THEN fresh \o content ELSE fresh,
              out |-> Append(out, flush_fragment(current_fragment, TRUE)),
              ok |-> ok, flushed |-> TRUE]

\* The pattern of lines 76-88, 144-153 and 202-213: safe_append(content); if it
\* fails, yield flush_fragment(current_fragment, close_tags=True), restart the buffer
\* from open_block_tags(open_blocks_stack) and safe_append(content) again; if that
\* fails too, raise SplitMessageError.
AppendOrFlush(content) ==
    IF SafeAppendFits(current_fragment, content)
    THEN [frag |-> current_fragment \o content, out |-> out, ok |-> TRUE,
          flushed |-> FALSE]
    ELSE LET fresh == open_block_tags(open_blocks_stack)
             ok == SafeAppendFits(fresh, content)
         IN  [frag |-> IF ok THEN fresh \o content ELSE fresh,
              out |-> Append(out, flush_fragment(current_fragment, TRUE)),
              ok |-> ok, flushed |-> TRUE]

\* ------------------------------------------------------------- traverse
\* traverse(node), node a NavigableString whose text is blank (lines 71-89)
TraverseWhitespace(s) ==
    /\ CanVisit /\ ~AfterText
    /\ IsBlank(s)
    /\ LET r == AppendOrFlush(s)
       IN  /\ current_fragment' = r.frag
           /\ out' = r.out
           /\ pc' = IF r.ok THEN "visit" ELSE "error"
    /\ visited' = Append(visited, Event("text", s, s, NoNode, 0, 0))
    /\ UNCHANGED <<max_len, open_blocks_stack, text_str, idx, frames>>

\* traverse(node), node a NavigableString with a non-blank character: up to the
\* text loop (lines 71-74, 92-99).  The text is not empty, so line 96 does not
\* return; lines 120-131 follow the return of line 117 and never run.
TraverseText(s) ==
    /\ CanVisit /\ ~AfterText
    /\ ~IsBlank(s)
    /\ text_str' = s
    /\ idx' = 0
    /\ pc' = "loop"
    /\ visited' = Append(visited, Event("text", s, s, NoNode, 0, 0))
    /\ UNCHANGED <<max_len, current_fragment, open_blocks_stack, out, frames>>

\* The test of line 103 off by one: the buffer counts as full one character early.
NoRoomOffByOne(space_in_fragment) == space_in_fragment <= 1

\* if space_in_fragment <= 0 (line 103)
NoRoom(space_in_fragment) == space_in_fragment <= 0

\* Line 110 taking the room left beside the re-opened tags, which may be none.
SpaceLeftAfterFlush(fragment) == max_len - Len(fragment)

\* space_in_fragment after the flush inside the loop (line 110)
SpaceAfterFlush(fragment) == max_len

\* One iteration of `while idx < len(text_str)` (lines 100-115); the loop is left
\* (line 117) when the condition fails.
TextLoopStep ==
    /\ pc = "loop"
    /\ idx < Len(text_str)
    /\ LET room == max_len - Len(current_fragment)
           full == NoRoom(room)
           fresh == open_block_tags(open_blocks_stack)
           buffer == IF full THEN fresh ELSE current_fragment
           space_in_fragment == IF full THEN SpaceAfterFlush(fresh) ELSE room
           chunk == Slice(text_str, idx, space_in_fragment)
       IN  /\ out' = IF full
                     THEN Append(out, flush_fragment(current_fragment, TRUE))
                     ELSE out
           /\ current_fragment' = buffer \o chunk
           /\ idx' = idx + Len(chunk)
           /\ pc' = IF idx + Len(chunk) < Len(text_str) THEN "loop" ELSE "visit"
    /\ UNCHANGED <<max_len, open_blocks_stack, text_str, frames, visited>>

\* traverse(node), node a Tag of BLOCK_TAGS: the opening tag and the push
\* (lines 133-155); the children follow
BlockOpen(name, attrs) ==
    /\ CanVisit
    /\ name \in BLOCK_TAGS
    /\ Len(frames) < MaxDepth
    /\ LET open_tag_str == OpenTagStr(name, attrs)
           r == AppendOrFlush(open_tag_str)
       IN  /\ current_fragment' = r.frag
           /\ out' = r.out
           /\ pc' = IF r.ok THEN "visit" ELSE "error"
           /\ open_blocks_stack' =
                  IF r.ok THEN Append(open_blocks_stack, name) ELSE open_blocks_stack
           /\ frames' = IF r.ok THEN Append(frames, name) ELSE frames
           /\ visited' = Append(visited, Event("open", open_tag_str, <<>>, NoNode, 0, 0))
    /\ UNCHANGED <<max_len, text_str, idx>>

\* A pop that removes nothing.
PopNothing(stack) == stack

\* open_blocks_stack.pop()
Pop(stack) == SubSeq(stack, 1, Len(stack) - 1)

\* The buffer that follows the fragment flushed without closing tags (line 181)
BufferAfterClose(stack) == open_block_tags(stack)

\* traverse(node), node a Tag of BLOCK_TAGS: after the loop over the children, the
\* closing tag and the pop (lines 161-191)
BlockClose ==
    /\ pc = "visit"
    /\ frames # <<>>
    /\ LET tag_name == frames[Len(frames)]
           closing_tag_str == ClosingTagStr(tag_name)
           popped == Pop(open_blocks_stack)
           fresh == BufferAfterClose(popped)
       IN  /\ open_blocks_stack' = popped
           /\ IF SafeAppendFits(current_fragment, closing_tag_str)
              THEN /\ current_fragment' = current_fragment \o closing_tag_str
                   /\ out' = out
                   /\ pc' = "visit"
              ELSE /\ out' = Append(out, flush_fragment(current_fragment, FALSE))
                   /\ IF Len(closing_tag_str) > max_len
                      THEN current_fragment' = <<>> /\ pc' = "error"
                      ELSE IF SafeAppendFits(fresh, closing_tag_str)
                      THEN current_fragment' = fresh \o closing_tag_str /\ pc' = "visit"
                      ELSE current_fragment' = fresh /\ pc' = "error"
           /\ visited' = Append(visited, Event("close", closing_tag_str, <<>>, NoNode, 0, 0))
    /\ frames' = Pop(frames)
    /\ UNCHANGED <<max_len, text_str, idx>>

\* The non-block branch without its length checks: full_str is always appended.
AtomicUnchecked(node, final_nl) ==
    /\ CanVisit
    /\ node.name \notin BLOCK_TAGS
    /\ LET full_str == Prettify(node, final_nl)
       IN  /\ current_fragment' = current_fragment \o full_str
           /\ visited' = Append(visited,
                  Event("atomic", full_str, NodeText(node), node,
                        Len(out) + 1, Len(current_fragment)))
    /\ pc' = "visit"
    /\ UNCHANGED <<max_len, open_blocks_stack, out, text_str, idx, frames>>

\* traverse(node), node a Tag outside BLOCK_TAGS (lines 193-213)
Atomic(node, final_nl) ==
    /\ CanVisit
    /\ node.name \notin BLOCK_TAGS
    /\ LET full_str == Prettify(node, final_nl)
           r == AppendOrFlush(full_str)
           too_long == Len(full_str) > max_len
           placed == ~too_long /\ r.ok
       IN  /\ current_fragment' = IF too_long THEN current_fragment ELSE r.frag
           /\ out' = IF too_long THEN out ELSE r.out
           /\ pc' = IF placed THEN "visit" ELSE "error"
           /\ visited' = Append(visited,
                  Event("atomic", full_str, NodeText(node), node,
                        IF placed THEN Len(r.out) + 1 ELSE 0,
                        IF placed THEN Len(r.frag) - Len(full_str) ELSE 0))
    /\ UNCHANGED <<max_len, open_blocks_stack, text_str, idx, frames>>

\* The final flush without its test: the buffer is yielded even when empty.
FinalFlushAlways(fragment) == Append(out, flush_fragment(fragment, TRUE))

\* if current_fragment: yield flush_fragment(current_fragment, close_tags=True)
FinalFlush(fragment) ==
    IF fragment # <<>> THEN Append(out, flush_fragment(fragment, TRUE)) ELSE out

\* After the loop over soup.children: the final flush (lines 221-227)
Finish ==
    /\ pc = "visit"
    /\ frames = <<>>
    /\ out' = FinalFlush(current_fragment)
    /\ pc' = "done"
    /\ UNCHANGED <<max_len, current_fragment, open_blocks_stack, text_str, idx,
                   frames, visited>>

Next ==
    \/ \E s \in Texts : TraverseWhitespace(s)
    \/ \E s \in Texts : TraverseText(s)
    \/ TextLoopStep
    \/ \E name \in BlockNames : \E attrs \in BlockAttrs(name) : BlockOpen(name, attrs)
    \/ BlockClose
    \/ \E node \in AtomicNodes :
           \E final_nl \in (IF node.void THEN {TRUE} ELSE BOOLEAN) : Atomic(node, final_nl)
    \/ Finish

Spec == Init /\ [][Next]_vars

\* ------------------------------------------------------------- reading the output
\* The serialisation of the nodes visited, in document order.
Serial == Concat([i \in 1..Len(visited) |-> visited[i].str])

\* The text of the nodes visited, in document order.
InputText == Concat([i \in 1..Len(visited) |-> visited[i].txt])

\* The characters of s that are not part of a tag.
RECURSIVE StripTags(_, _)
StripTags(s, in_tag) ==
    IF s = <<>> THEN <<>>
    ELSE IF Head(s) = "<" THEN StripTags(Tail(s), TRUE)
    ELSE IF Head(s) = ">" THEN StripTags(Tail(s), FALSE)
    ELSE IF in_tag THEN StripTags(Tail(s), TRUE)
    ELSE <<Head(s)>> \o StripTags(Tail(s), FALSE)

\* The tags of s in order: [closing, name].
RECURSIVE ScanTags(_, _)
ScanTags(s, i) ==
    IF i > Len(s) THEN <<>>
    ELSE IF s[i] # "<" THEN ScanTags(s, i + 1)
    ELSE LET IsEnd(j) == j > Len(s) \/ s[j] = ">"
             end == CHOOSE j \in i..(Len(s) + 1) :
                        IsEnd(j) /\ \A k \in i..(j - 1) : ~IsEnd(k)
             closing == i < Len(s) /\ s[i + 1] = "/"
             start == IF closing THEN i + 2 ELSE i + 1
             IsStop(j) == j >= end \/ s[j] \in {" ", "/"}
             stop == CHOOSE j \in start..end :
                        IsStop(j) /\ \A k \in start..(j - 1) : ~IsStop(k)
         IN  <<[closing |-> closing, name |-> SubSeq(s, start, stop - 1)]>>
             \o ScanTags(s, end + 1)

\* The block tags among tags nest properly against the stack of open ones.
RECURSIVE Nested(_, _)
Nested(tags, stack) ==
    IF tags = <<>> THEN stack = <<>>
    ELSE LET t == Head(tags)
         IN  IF t.name \notin BLOCK_TAGS THEN Nested(Tail(tags), stack)
             ELSE IF ~t.closing THEN Nested(Tail(tags), Append(stack, t.name))
             ELSE /\ stack # <<>>
                  /\ stack[Len(stack)] = t.name
                  /\ Nested(Tail(tags), SubSeq(stack, 1, Len(stack) - 1))

BlockBalanced(fragment) == Nested(ScanTags(fragment, 1), <<>>)

\* ------------------------------------------------------------- C1
\* C1: every string yielded by split_message has length <= max_len.
C1_FragmentsWithinMaxLen == \A i \in 1..Len(out) : Len(out[i]) <= max_len

\* ------------------------------------------------------------- C2
\* Where the atomic element of visited[i] lies: the fragment yielded, or the buffer.
HolderOf(i) ==
    IF visited[i].frag <= Len(out) THEN out[visited[i].frag] ELSE current_fragment

\* C2: an atomic element is never split: once appended, its whole serialisation
\* lies contiguously in one fragment, at the place where it was appended, whatever
\* is flushed, re-opened or closed afterwards; when the run is done that fragment
\* has been yielded.
C2_AtomicNeverSplit ==
    \A i \in 1..Len(visited) :
        (visited[i].kind = "atomic" /\ visited[i].frag > 0) =>
            /\ visited[i].frag <= Len(out) + 1
            /\ SubSeq(HolderOf(i), visited[i].off + 1,
                      visited[i].off + Len(visited[i].str)) = visited[i].str
            /\ (pc = "done" => visited[i].frag <= Len(out))

\* An atomic element that did not fit was appended after re-opened block tags in a
\* later fragment, and the run went on to its end.
C2_Witness ==
    /\ pc = "done"
    /\ \E i \in 1..Len(visited) :
           /\ visited[i].kind = "atomic"
           /\ visited[i].frag >= 2
           /\ visited[i].off > 0

\* ------------------------------------------------------------- C3
\* C3: every yielded fragment is balanced for block tags: each block opening tag
\* has its closing tag later in the same fragment, properly nested, and each block
\* closing tag matches an opening tag earlier in the same fragment.
C3_FragmentsBalanced == \A i \in 1..Len(out) : BlockBalanced(out[i])

\* ------------------------------------------------------------- C4
\* The Tag nodes strictly below node.
RECURSIVE TagsBelow(_)
TagsBelow(node) ==
    UNION { (IF node.children[i].kind = "tag" THEN {node.children[i]} ELSE {})
            \cup TagsBelow(node.children[i]) : i \in 1..Len(node.children) }

\* The atomic element of visited[i], or an element inside it, serialises to more
\* than max_len characters.
Oversize(i) ==
    \/ Len(visited[i].str) > max_len
    \/ \E d \in TagsBelow(visited[i].node) :
           \E nl \in BOOLEAN : Len(Prettify(d, nl)) > max_len

\* C4: once the input has shown an atomic element whose serialisation is longer
\* than max_len, the run has raised SplitMessageError; it never completes.
C4_OversizeAtomicRaises ==
    \A i \in 1..Len(visited) :
        (visited[i].kind = "atomic" /\ Oversize(i)) => pc = "error"

\* An oversize atomic element met inside an open block, after a fragment was yielded.
C4_Witness ==
    /\ pc = "error"
    /\ out # <<>>
    /\ open_blocks_stack # <<>>
    /\ visited[Len(visited)].kind = "atomic"
    /\ Oversize(Len(visited))

\* ------------------------------------------------------------- C5
\* C5: on a run that completes, the characters of the yielded fragments that are
\* not part of a tag are, in order, the text of the input's text nodes.
C5_TextPreserved ==
    pc = "done" => StripTags(Concat(out), FALSE) = InputText

\* ------------------------------------------------------------- C6
\* The nesting depth after the first i entries of visited.
Depth(i) ==
    Cardinality({k \in 1..i : visited[k].kind = "open"})
    - Cardinality({k \in 1..i : visited[k].kind = "close"})

\* visited[a..b] is exactly one block element.
IsBlockElement(a, b) ==
    /\ a < b
    /\ visited[a].kind = "open"
    /\ Depth(b) = Depth(a - 1)
    /\ \A k \in a..(b - 1) : Depth(k) > Depth(a - 1)

SerialOf(a, b) == Concat([i \in 1..(b - a + 1) |-> visited[a + i - 1].str])

\* C6: when the input is two sibling block elements, each of length <= max_len and
\* together longer than max_len, the output is exactly the first element and then
\* the second element.
C6_SplitBetweenSiblings ==
    \A m \in 1..Len(visited) :
        ( /\ pc = "done"
          /\ IsBlockElement(1, m)
          /\ IsBlockElement(m + 1, Len(visited))
          /\ Len(SerialOf(1, m)) <= max_len
          /\ Len(SerialOf(m + 1, Len(visited))) <= max_len
          /\ Len(Serial) > max_len )
        => out = <<SerialOf(1, m), SerialOf(m + 1, Len(visited))>>

\* ------------------------------------------------------------- C7
Ceil(a, b) == (a + b - 1) \div b

\* The input delivered so far is one text node, longer than max_len.
OneLongText ==
    /\ Len(visited) = 1
    /\ visited[1].kind = "text"
    /\ Len(visited[1].str) > max_len

\* The output is ceil(L / max_len) fragments, all of length max_len but the last.
ChunkedEvenly(L) ==
    /\ Len(out) = Ceil(L, max_len)
    /\ \A i \in 1..(Len(out) - 1) : Len(out[i]) = max_len
    /\ Len(out[Len(out)]) = L - (Ceil(L, max_len) - 1) * max_len

\* C7 as stated: a single plain-text node of length L > max_len, blank or not,
\* gives ceil(L / max_len) fragments of length max_len (the last: the rest).
C7_AnyTextChunked ==
    (OneLongText /\ pc \in {"done", "error"}) =>
        (pc = "done" /\ ChunkedEvenly(Len(visited[1].str)))

\* C7 as amended: the same for a text node with a non-blank character, for which
\* the run never raises; a blank text node longer than max_len raises instead.
C7_NonBlankTextChunked ==
    OneLongText =>
        IF IsBlank(visited[1].str)
        THEN pc = "error"
        ELSE /\ pc # "error"
             /\ pc = "done" => ChunkedEvenly(Len(visited[1].str))

\* A non-blank text of three characters split at max_len 2.
C7_Witness ==
    /\ pc = "done"
    /\ OneLongText
    /\ ~IsBlank(visited[1].str)
    /\ Len(visited[1].str) = 3
    /\ max_len = 2
    /\ Len(out) = 2

\* ------------------------------------------------------------- C8
\* C8: while the serialisation of the input fits in max_len nothing is yielded and
\* nothing raises, and at the end of a non-empty input exactly one fragment is
\* yielded, equal to that serialisation.
C8_SmallInputOneFragment ==
    Len(Serial) <= max_len =>
        /\ pc # "error"
        /\ pc # "done" => out = <<>>
        /\ (pc = "done" /\ visited # <<>>) => out = <<Serial>>

\* A block element holding text whose serialisation fills max_len exactly.
C8_Witness ==
    /\ pc = "done"
    /\ Len(Serial) = max_len
    /\ out = <<Serial>>
    /\ \E i \in 1..Len(visited) : visited[i].kind = "open"
    /\ \E i \in 1..Len(visited) : visited[i].kind = "text"

\* ------------------------------------------------------------- C9
\* C9: for an empty input nothing is yielded and nothing raises.
C9_EmptyInputNoFragments ==
    visited = <<>> => (out = <<>> /\ pc # "error")

\* The run on the empty input has ended.
C9_Witness == pc = "done" /\ visited = <<>>

\* ------------------------------------------------------------- C10
\* C10: every string yielded by split_message is non-empty.
C10_FragmentsNonEmpty == \A i \in 1..Len(out) : out[i] # <<>>

\* ------------------------------------------------------------- C11
\* A fully consumed generator runs every step it can take.
LiveSpec == Init /\ [][Next]_vars /\ WF_vars(Next)

Terminated == pc \in {"done", "error"}

\* C11: a fully consumed split_message ends, by finishing the traversal or by
\* raising, and every iteration of the text loop consumes at least one character.
C11_Terminates ==
    /\ <>Terminated
    /\ [][pc = "loop" => idx' > idx]_vars

\* A text was chunked across flushes that re-opened a block tag, and the run ended.
C11_Witness ==
    /\ pc = "done"
    /\ Len(out) >= 3
    /\ \E i \in 1..Len(visited) : visited[i].kind = "open"
    /\ \E i \in 1..Len(visited) :
           visited[i].kind = "text" /\ ~IsBlank(visited[i].str)

\* ------------------------------------------------------------- C13
\* C13: between traversal steps the buffer never holds more than max_len
\* characters.
C13_BufferWithinMaxLen == Len(current_fragment) <= max_len

\* ------------------------------------------------------------- C14
\* The block tags among tags that are opened and not closed, outermost first;
\* ok is FALSE when a closing block tag does not match the innermost open one.
RECURSIVE OpenAfter(_, _)
OpenAfter(tags, stack) ==
    IF tags = <<>> THEN [ok |-> TRUE, stack |-> stack]
    ELSE LET t == Head(tags)
         IN  IF t.name \notin BLOCK_TAGS THEN OpenAfter(Tail(tags), stack)
             ELSE IF ~t.closing THEN OpenAfter(Tail(tags), Append(stack, t.name))
             ELSE IF stack # <<>> /\ stack[Len(stack)] = t.name
             THEN OpenAfter(Tail(tags), SubSeq(stack, 1, Len(stack) - 1))
             ELSE [ok |-> FALSE, stack |-> stack]

\* C14: between traversal steps the block tags opened and not yet closed in the
\* buffer are exactly the names of open_blocks_stack, outermost first.
C14_BufferMatchesStack ==
    LET r == OpenAfter(ScanTags(current_fragment, 1), <<>>)
    IN  r.ok /\ r.stack = open_blocks_stack

\* ------------------------------------------------------------- C15
\* </t> for every t of stack, innermost first; <t> for every t, outermost first.
ClosingOf(stack) ==
    Concat([i \in 1..Len(stack) |-> <<"<", "/">> \o stack[Len(stack) + 1 - i] \o <<">">>])
OpeningOf(stack) ==
    Concat([i \in 1..Len(stack) |-> <<"<">> \o stack[i] \o <<">">>])

IsPrefix(p, s) == Len(p) <= Len(s) /\ SubSeq(s, 1, Len(p)) = p

\* A step that yields a fragment by a flush with close_tags=True: any yield but the
\* one of a block element's closing tag.
FlushClosingStep ==
    /\ Len(out') = Len(out) + 1
    /\ ~(visited' # visited /\ visited'[Len(visited')].kind = "close")

\* C15: a flush with close_tags=True yields the buffer followed by the closing tags
\* of the stack, innermost first; it does not change the stack (the step may push
\* the block element it opens afterwards); and the buffer restarts from the bare
\* opening tags of the stack, outermost first, so the next fragment begins with them.
C15_FlushProtocol ==
    [][FlushClosingStep =>
          /\ out'[Len(out')] = current_fragment \o ClosingOf(open_blocks_stack)
          /\ IsPrefix(open_blocks_stack, open_blocks_stack')
          /\ pc' # "done" => IsPrefix(OpeningOf(open_blocks_stack), current_fragment')
          /\ pc' = "error" => current_fragment' = OpeningOf(open_blocks_stack)]_vars

\* A flush inside <p><b k>: the fragment ends with </b></p> and the buffer restarts
\* with <p><b>.
C15_Witness ==
    /\ open_blocks_stack = << <<"p">>, <<"b">> >>
    /\ out # <<>>
    /\ LET f == out[Len(out)]
       IN  /\ Len(f) > 7
           /\ SubSeq(f, Len(f) - 7, Len(f)) = ClosingOf(open_blocks_stack)
    /\ IsPrefix(<<"<", "p", ">", "<", "b", ">">>, current_fragment)

\* ------------------------------------------------------------- C16
\* The node visited last is an atomic element that passed the size check of
\* line 197.
LastIsFittingAtomic ==
    /\ visited # <<>>
    /\ visited[Len(visited)].kind = "atomic"
    /\ Len(visited[Len(visited)].str) <= max_len

\* C16 as stated: an atomic element that passed the size check never raises.
C16_RetryNeverFails == LastIsFittingAtomic => pc # "error"

\* C16 as amended: it raises only after the flush, when the re-opened block tags
\* and its serialisation together exceed max_len; never with an empty stack; when
\* it is appended after a flush it follows the re-opened tags within max_len.
C16_RetryFailsOnlyForReopenedTags ==
    LastIsFittingAtomic =>
        LET e == visited[Len(visited)]
            reopened == OpeningOf(open_blocks_stack)
        IN  /\ pc = "error" =>
                /\ open_blocks_stack # <<>>
                /\ Len(reopened) + Len(e.str) > max_len
                /\ out # <<>>
                /\ current_fragment = reopened
            /\ (pc # "error" /\ e.frag = Len(out) + 1 /\ e.off = Len(reopened)
                /\ SubSeq(current_fragment, 1, e.off) = reopened) =>
                   Len(reopened) + Len(e.str) <= max_len

\* An atomic element that fits max_len raised inside an open block.
C16_Witness ==
    /\ LastIsFittingAtomic
    /\ pc = "error"
    /\ open_blocks_stack # <<>>

\* ------------------------------------------------------------- C17
\* str(node) of the comments delivered: <!--x-->, <!-- --> and <!--xy-->.
Comments == {<<"x">>, <<" ">>, <<"x", "y">>}

\* traverse(node), node a Comment, Doctype or ProcessingInstruction: these classes
\* derive from NavigableString, so the test of line 71 holds and the node takes the
\* text branches with str(node) (lines 71-117); the else of line 215 is not reached.
TraverseOther(s) ==
    /\ CanVisit
    /\ IF IsBlank(s)
       THEN LET r == AppendOrFlush(s)
            IN  /\ current_fragment' = r.frag
                /\ out' = r.out
                /\ pc' = IF r.ok THEN "visit" ELSE "error"
                /\ UNCHANGED <<text_str, idx>>
       ELSE /\ text_str' = s
            /\ idx' = 0
            /\ pc' = "loop"
            /\ UNCHANGED <<current_fragment, out>>
    /\ visited' = Append(visited,
           Event("other", <<>>, <<>>, TextNode(s), Len(out), Len(current_fragment)))
    /\ UNCHANGED <<max_len, open_blocks_stack, frames>>

NextOther ==
    \/ Next
    \/ \E s \in Comments : TraverseOther(s)

\* The runs on trees that may hold comments.
SpecOther == Init /\ [][NextOther]_vars

\* C17: a node that is neither Element nor Text is skipped: until the next node is
\* visited the buffer, the stack and the yielded fragments are as they were when it
\* was visited, and nothing is raised.
C17_OtherNodesSkipped ==
    (visited # <<>> /\ visited[Len(visited)].kind = "other" /\ pc # "done") =>
        /\ pc # "error"
        /\ Len(out) = visited[Len(visited)].frag
        /\ Len(current_fragment) = visited[Len(visited)].off

\* ------------------------------------------------------------- C18
\* A step that visits a whitespace-only text node.
WhitespaceStep ==
    /\ Len(visited') = Len(visited) + 1
    /\ visited'[Len(visited')].kind = "text"
    /\ IsBlank(visited'[Len(visited')].str)

\* C18: a whitespace-only text node is appended whole when it fits in the buffer;
\* otherwise the buffer is yielded with the open block tags closed, the new buffer
\* starts with the re-opened block tags and the append is tried once more; the
\* error is raised exactly when the re-opened tags plus the text exceed max_len,
\* after the flushed fragment was yielded.  The text is never cut.
C18_WhitespaceWholeOrError ==
    [][WhitespaceStep =>
          LET text == visited'[Len(visited')].str
              reopened == OpeningOf(open_blocks_stack)
          IN  /\ open_blocks_stack' = open_blocks_stack
              /\ IF Len(current_fragment) + Len(text) <= max_len
                 THEN /\ current_fragment' = current_fragment \o text
                      /\ out' = out
                      /\ pc' = "visit"
                 ELSE /\ out' = Append(out, current_fragment \o ClosingOf(open_blocks_stack))
                      /\ (pc' = "error") <=> (Len(reopened) + Len(text) > max_len)
                      /\ pc' \in {"error", "visit"}
                      /\ current_fragment' =
                             IF pc' = "error" THEN reopened ELSE reopened \o text]_vars

\* A whitespace-only text of two characters, inside an open block element, did not
\* fit, the fragment was yielded, and the retry after the re-opened tags raised.
C18_Witness ==
    /\ pc = "error"
    /\ open_blocks_stack # <<>>
    /\ out # <<>>
    /\ visited[Len(visited)].kind = "text"
    /\ IsBlank(visited[Len(visited)].str)
    /\ Len(visited[Len(visited)].str) = 2
    /\ current_fragment = OpeningOf(open_blocks_stack)

\* ------------------------------------------------------------- C19
\* The block elements entered and not yet left after the first n node events: the
\* chain of block ancestors of the node visited next.
RECURSIVE OpenChain(_)
OpenChain(n) ==
    IF n = 0 THEN <<>>
    ELSE LET e == visited[n]
             before == OpenChain(n - 1)
         IN  IF e.kind = "open" THEN Append(before, ScanTags(e.str, 1)[1].name)
             ELSE IF e.kind = "close" THEN SubSeq(before, 1, Len(before) - 1)
             ELSE before

\* C19: unless an error was raised, open_blocks_stack is the chain of the block
\* elements entered and not yet left: the traversal of a block element leaves the
\* stack as it found it, whether its closing tag fitted or not, and text and atomic
\* elements do not change it.  When the root loop has finished the stack is empty
\* and the last fragment is the buffer with no closing tag added.
C19_StackFollowsTraversal ==
    /\ pc # "error" => open_blocks_stack = OpenChain(Len(visited))
    /\ pc = "done" =>
          /\ open_blocks_stack = <<>>
          /\ current_fragment # <<>> => out[Len(out)] = current_fragment

\* A finished run with a block element whose closing tag did not fit (the closing
\* tag opens the next fragment) and a node visited after it.
C19_Witness ==
    /\ pc = "done"
    /\ \E i \in 1..Len(out) : Len(out[i]) >= 2 /\ out[i][1] = "<" /\ out[i][2] = "/"
    /\ \E i \in 1..Len(visited) : visited[i].kind = "close" /\ i < Len(visited)
    /\ \E i \in 1..Len(visited) : visited[i].kind \in {"text", "atomic"}

====
